---------------------------- MODULE Spec2Model ----------------------------
(***************************************************************************)
(* Model of the Argos tree views:                                          *)
(*   libargos/widgets/repotreeview.py    RepoTreeView                      *)
(*   libargos/widgets/configtreeview.py  ConfigItemDelegate, ConfigTreeView*)
(*                                                                         *)
(* The repository tree model (RepoTreeModel), the tree items (RTIs, CTIs)  *)
(* and the config tree model are collaborators whose code is not part of   *)
(* the sources at hand; they are modelled from their documented contract.  *)
(* The reaction of the Qt selection model and item view to removed rows is *)
(* modelled as Qt implements it for the selection mode the view sets up.   *)
(***************************************************************************)
EXTENDS Integers, Sequences, FiniteSets, TLC

VARIABLES
    st,       \* the repository tree model and the state of the RepoTreeView
    lastOp,   \* the name of the last handler that was called
    cv        \* the config tree model and the editors of the ConfigTreeView

vars == <<st, lastOp, cv>>

---------------------------------------------------------------------------
(* Bounds *)

\* Number of tree item objects that can be constructed (ids 1..MaxIds).
MaxIds == 3

\* Number of config tree items (CTIs) of the config tree.
NumCtis == 2

---------------------------------------------------------------------------
(* Values *)

Ids == 0..MaxIds

\* The invisible root item of the tree model.
RootItem == 0

\* Python's None, where a number is expected
None == -1

\* Python's None, where a class is expected
NoClass == "None"

Files == {"a.nc", "b.txt"}

FileRtiClasses == {"NcdfFileRti", "TextFileRti"}

\* RepoTreeModel.COL_NODE_NAME and RepoTreeModel.COL_FILE_NAME: the columns
\* of the repo tree the view names.
COL_NODE_NAME == 0

COL_FILE_NAME == 1

Cols == {COL_NODE_NAME, COL_FILE_NAME}

\* QModelIndex(): the invalid index, which stands for the invisible root.
InvalidIndex == [node |-> RootItem, col |-> None]

isValid(index) == index.node # RootItem

Index(n, c) == [node |-> n, col |-> c]

\* QModelIndex.sibling(row, 0): column 0 of the same row; an invalid index has
\* no model and its sibling is invalid.
Col0(index) == IF isValid(index) THEN Index(index.node, 0) ELSE InvalidIndex

---------------------------------------------------------------------------
(* Tree items (RTIs): collaborators *)

\* detectRtiFromFileName: the RTI class for a file, from its extension.
detectRtiFromFileName(fileName) ==
    IF fileName = "a.nc" THEN "NcdfFileRti" ELSE "TextFileRti"

\* Number of children an open item yields when its children are fetched.
NumChildren(rtiClass) ==
    CASE rtiClass = "NcdfFileRti" -> 2
      [] rtiClass = "TextFileRti" -> 1
      [] rtiClass = "GroupRti"    -> 1
      [] OTHER                    -> 0

\* Class of the children of an item.
ChildClass(rtiClass) ==
    IF rtiClass \in FileRtiClasses THEN "GroupRti" ELSE "FieldRti"

\* An item object that is not in the tree (never constructed, or removed).
BlankItems ==
    [childItems |-> [n \in Ids |-> <<>>],
     parentItem |-> [n \in Ids |-> None],
     fileName   |-> [n \in Ids |-> ""],
     rtiClass   |-> [n \in Ids |-> IF n = RootItem THEN "BaseRti" ELSE "none"],
     isOpen     |-> [n \in Ids |-> FALSE]]

\* rtiClass.createFromFileName(fileName): a fresh, closed item without parent.
\* The new object is s.nextId.
createFromFileName(s, rtiClass, fileName) ==
    [s EXCEPT !.fileName[s.nextId]   = fileName,
              !.rtiClass[s.nextId]   = rtiClass,
              !.parentItem[s.nextId] = None,
              !.childItems[s.nextId] = <<>>,
              !.isOpen[s.nextId]     = FALSE,
              !.nextId               = s.nextId + 1]

\* item.open(): acquires the item's resource.
open(s, n) == [s EXCEPT !.isOpen[n] = TRUE]

\* item.close(): releases the item's resource.
close(s, n) == [s EXCEPT !.isOpen[n] = FALSE,
                         !.closeLog  = Append(s.closeLog, n)]

\* item.childNumber(): the position of the item among its parent's children.
RECURSIVE PosIn(_, _)
PosIn(seq, n) == IF seq = <<>> THEN None
                 ELSE IF Head(seq) = n THEN 0
                 ELSE LET r == PosIn(Tail(seq), n) IN IF r = None THEN None ELSE r + 1

childNumber(s, n) ==
    IF s.parentItem[n] = None THEN 0 ELSE PosIn(s.childItems[s.parentItem[n]], n)


---------------------------------------------------------------------------
(* Tree structure helpers *)

RECURSIVE ConcatAll(_)
ConcatAll(seqs) == IF seqs = <<>> THEN <<>> ELSE Head(seqs) \o ConcatAll(Tail(seqs))

\* The items of the subtree at n, children before their parent.
RECURSIVE PostOrder(_, _)
PostOrder(s, n) ==
    LET kids == s.childItems[n]
    IN  ConcatAll([i \in 1..Len(kids) |-> PostOrder(s, kids[i])]) \o <<n>>

Range(seq) == {seq[i] : i \in 1..Len(seq)}

\* The items of the subtree at n, n included.
Subtree(s, n) == Range(PostOrder(s, n))

Descendants(s, n) == Subtree(s, n) \ {n}

\* The items that are in the model: the descendants of the invisible root.
InModel(s) == Descendants(s, RootItem)

InsertAt(seq, pos, x) == SubSeq(seq, 1, pos) \o <<x>> \o SubSeq(seq, pos + 1, Len(seq))

\* The valid indices of the model, all columns.
ValidIndices(s) == {Index(n, c) : n \in InModel(s), c \in Cols}

---------------------------------------------------------------------------
(* Qt: selection model and item view, as RepoTreeView.__init__ sets them up
   (SelectRows, SingleSelection) *)

\* QItemSelectionModel.setCurrentIndex(index, command).
QSetCurrentIndex(s, index, command) ==
    LET row == IF isValid(index) THEN {index.node} ELSE {}
    IN  [s EXCEPT !.currentIndex = index,
                  !.selectedRows =
                      CASE command = "ClearAndSelect|Rows" -> row
                        [] command = "Select|Rows"         -> s.selectedRows \cup row
                        [] OTHER                           -> s.selectedRows]

\* The selection command of a view in SingleSelection mode with SelectRows.
selectionCommand == "ClearAndSelect|Rows"

\* The reaction of the view and of the selection model to the model's
\* rowsAboutToBeRemoved(parent, start, end) signal (rows are 0-based; the tree
\* is still as it was). QAbstractItemView.rowsAboutToBeRemoved keeps one item
\* selected in SingleSelection mode when the current row is removed; the
\* selection model deselects what is removed and invalidates a current index
\* inside a removed subtree.
rowsAboutToBeRemoved(s, parent, start, end) ==
    LET kids    == s.childItems[parent]
        cur     == s.currentIndex
        removed == UNION {Subtree(s, kids[i + 1]) : i \in start..end}
        direct  == /\ isValid(cur)
                   /\ s.parentItem[cur.node] = parent
                   /\ PosIn(kids, cur.node) \in start..end
        gone    == [s EXCEPT !.currentIndex = InvalidIndex,
                             !.selectedRows = s.selectedRows \ removed]
    IN  IF direct
        THEN IF Len(kids) <= end - start + 1
             THEN IF parent # RootItem
                  THEN QSetCurrentIndex(s, Index(parent, 0), selectionCommand)
                  ELSE gone
             ELSE LET next == IF end + 1 < Len(kids) THEN kids[end + 2] ELSE kids[start]
                  IN  QSetCurrentIndex(s, Index(next, cur.col), selectionCommand)
        ELSE IF isValid(cur) /\ cur.node \in removed
             THEN gone
             ELSE [s EXCEPT !.selectedRows = s.selectedRows \ removed]

---------------------------------------------------------------------------
(* RepoTreeModel: collaborator *)

\* model.getItem(index): the item at the index; the invalid index stands for
\* the invisible root item.
getItem(s, index) == index.node

\* model.insertItem(item, position, parentIndex): inserts the item among the
\* children of the parent, at position, or as the last child if position is
\* None. The index of the inserted item is Index(item, 0).
insertItem(s, item, position, parentIndex) ==
    LET p    == getItem(s, parentIndex)
        kids == s.childItems[p]
        pos  == IF position = None THEN Len(kids) ELSE position
    IN  [s EXCEPT !.childItems[p]    = InsertAt(kids, pos, item),
                  !.parentItem[item] = p]

\* The removal of an item as it would be if it did not close the item.
finalizeItemKeepOpen(s, n) ==
    [s EXCEPT !.childItems[n] = <<>>,
              !.parentItem[n] = None,
              !.fileName[n]   = "",
              !.rtiClass[n]   = "none",
              !.expanded      = s.expanded \ {n}]

\* An item that leaves the tree: its resources are closed, it is detached and
\* nothing refers to the object any more.
finalizeItem(s, n) ==
    LET c == close(s, n)
    IN  [c EXCEPT !.childItems[n] = <<>>,
                  !.parentItem[n] = None,
                  !.fileName[n]   = "",
                  !.rtiClass[n]   = "none",
                  !.expanded      = c.expanded \ {n}]

RECURSIVE finalizeAll(_, _)
finalizeAll(s, seq) ==
    IF seq = <<>> THEN s ELSE finalizeAll(finalizeItem(s, Head(seq)), Tail(seq))

\* Removes the rows start..end (0-based) of parent: the views are told, every
\* item of the removed subtrees is closed (children first), the rows leave the
\* parent's child list.
removeRows(s, parent, start, end) ==
    LET kids  == s.childItems[parent]
        told  == rowsAboutToBeRemoved(s, parent, start, end)
        order == ConcatAll([i \in 1..(end - start + 1) |-> PostOrder(s, kids[start + i])])
        done  == finalizeAll(told, order)
    IN  [done EXCEPT !.childItems[parent] =
                        SubSeq(kids, 1, start) \o SubSeq(kids, end + 2, Len(kids))]

\* model.deleteItemByIndex(index): removes the item and its subtree from the
\* model, closing the resources of all of them.
deleteItemByIndex(s, index) ==
    LET n == getItem(s, index)
        p == s.parentItem[n]
        r == childNumber(s, n)
    IN  IF ~isValid(index) \/ p = None THEN s ELSE removeRows(s, p, r, r)

\* model.removeAllChildrenAtIndex(index): removes (and closes) all descendants
\* of the item at the index; the item itself stays.
removeAllChildrenAtIndex(s, index) ==
    LET n == getItem(s, index)
    IN  IF s.childItems[n] = <<>> THEN s
        ELSE removeRows(s, n, 0, Len(s.childItems[n]) - 1)

\* model.findTopLevelItemIndex(index): the ancestor (or the item itself) that is
\* a child of the invisible root.
RECURSIVE TopLevelOf(_, _)
TopLevelOf(s, n) ==
    IF n = RootItem \/ s.parentItem[n] = None \/ s.parentItem[n] = RootItem THEN n
    ELSE TopLevelOf(s, s.parentItem[n])

findTopLevelItemIndex(s, index) ==
    IF isValid(index) THEN Index(TopLevelOf(s, index.node), 0) ELSE InvalidIndex

\* model.findFileRtiIndex(index): the nearest ancestor (or the item itself)
\* that represents a file.
RECURSIVE FileRtiOf(_, _)
FileRtiOf(s, n) ==
    IF \/ n = RootItem
       \/ s.rtiClass[n] \in FileRtiClasses
       \/ s.parentItem[n] \in {None, RootItem}
    THEN n
    ELSE FileRtiOf(s, s.parentItem[n])

findFileRtiIndex(s, index) ==
    IF isValid(index) THEN Index(FileRtiOf(s, index.node), 0) ELSE InvalidIndex

\* index.parent()
parentIndexOf(s, index) ==
    IF ~isValid(index) \/ s.parentItem[index.node] \in {None, RootItem}
    THEN InvalidIndex
    ELSE Index(s.parentItem[index.node], 0)

\* Whether the children of the item can be fetched: it is open, has children
\* to give and none of them is in the tree yet.
canFetchMore(s, n) ==
    /\ n # RootItem
    /\ s.isOpen[n]
    /\ s.childItems[n] = <<>>
    /\ NumChildren(s.rtiClass[n]) > 0

\* The item at n gets one more child, a fresh closed item of its file.
RECURSIVE fetchChildren(_, _, _)
fetchChildren(s, n, k) ==
    IF k = 0 THEN s
    ELSE LET c == s.nextId
             made == [s EXCEPT !.fileName[c]   = s.fileName[n],
                               !.rtiClass[c]   = ChildClass(s.rtiClass[n]),
                               !.parentItem[c] = n,
                               !.isOpen[c]     = FALSE,
                               !.childItems[n] = Append(s.childItems[n], c),
                               !.nextId        = c + 1]
         IN  fetchChildren(made, n, k - 1)

\* model.fetchMore(index), which the view calls for an expanded item.
fetchMore(s, n) ==
    IF canFetchMore(s, n) THEN fetchChildren(s, n, NumChildren(s.rtiClass[n])) ELSE s


---------------------------------------------------------------------------
(* RepoTreeView *)

\* QTreeView.expand(index): the item is shown expanded, and the view fetches
\* the children it can fetch.
expand(s, index) ==
    IF ~isValid(index) THEN s
    ELSE fetchMore([s EXCEPT !.expanded = s.expanded \cup {index.node}], index.node)

\* QTreeView.collapse(index)
collapse(s, index) == [s EXCEPT !.expanded = s.expanded \ {index.node}]

\* QTreeView.setExpanded(index, expand)
setExpanded(s, index, expanded) ==
    IF expanded THEN expand(s, index) ELSE collapse(s, index)

\* loadRepoTreeItem as it would be without the assertion.
loadRepoTreeItemNoAssert(s, repoTreeItem, expanded, position, parentIndex) ==
    LET inserted == insertItem(s, repoTreeItem, position, parentIndex)
        shown    == setExpanded(inserted, Index(repoTreeItem, 0), expanded)
    IN  [shown EXCEPT !.returned = Index(repoTreeItem, 0)]

\* RepoTreeView.loadRepoTreeItem: the assertion fails for an item that has a
\* parent; otherwise the item is inserted, storeRootIndex is the index that
\* insertItem returns, and it is what the method returns.
loadRepoTreeItem(s, repoTreeItem, expanded, position, parentIndex) ==
    IF s.parentItem[repoTreeItem] # None
    THEN [s EXCEPT !.error = "AssertionError"]
    ELSE LET inserted       == insertItem(s, repoTreeItem, position, parentIndex)
             storeRootIndex == Index(repoTreeItem, 0)
             shown          == setExpanded(inserted, storeRootIndex, expanded)
         IN  [shown EXCEPT !.returned = storeRootIndex]

\* loadFile as it would be if it always detected the class from the file name.
loadFileAlwaysDetect(s, fileName, expanded, rtiClass) ==
    LET cls     == detectRtiFromFileName(fileName)
        created == createFromFileName(s, cls, fileName)
    IN  loadRepoTreeItem(created, s.nextId, expanded, None, InvalidIndex)

\* RepoTreeView.loadFile; it returns what loadRepoTreeItem returns.
loadFile(s, fileName, expanded, rtiClass) ==
    LET cls     == IF rtiClass = NoClass THEN detectRtiFromFileName(fileName) ELSE rtiClass
        created == createFromFileName(s, cls, fileName)
    IN  loadRepoTreeItem(created, s.nextId, expanded, None, InvalidIndex)

\* setCurrentIndex as it would be with the Select flag in place of
\* ClearAndSelect.
setCurrentIndexNoClear(s, currentIndex) ==
    QSetCurrentIndex(s, currentIndex, "Select|Rows")

\* setCurrentIndex as it would be if it set the current index only.
setCurrentIndexNoUpdate(s, currentIndex) ==
    QSetCurrentIndex(s, currentIndex, "NoUpdate")

\* RepoTreeView.setCurrentIndex
setCurrentIndex(s, currentIndex) ==
    QSetCurrentIndex(s, currentIndex, "ClearAndSelect|Rows")

\* RepoTreeView._getCurrentIndex
getCurrentIndex(s) == Col0(s.currentIndex)

\* RepoTreeView._getCurrentItem: the current item (its index is getCurrentIndex).
getCurrentItem(s) == getItem(s, getCurrentIndex(s))

\* One call of a handler and the state it leaves.
\* at is the index the call is made with (for open() and close(), the index of
\* the item they are called on).
Snap(call, at, s) == [call |-> call, at |-> at, s |-> s]

\* RepoTreeView.openCurrentItem
openCurrentItem(s) ==
    LET currentItem  == getCurrentItem(s)
        currentIndex == getCurrentIndex(s)
        opened       == open(s, currentItem)
    IN  <<Snap("open", currentIndex, opened),
          Snap("expand", currentIndex, expand(opened, currentIndex))>>

\* closeCurrentItem as it would be without the removal of the children.
closeCurrentItemKeepChildren(s) ==
    LET currentItem  == getItem(s, Col0(s.currentIndex))
        currentIndex == Col0(s.currentIndex)
        closed       == close(s, currentItem)
    IN  <<Snap("close", currentIndex, closed),
          Snap("collapse", currentIndex, collapse(closed, currentIndex))>>

\* closeCurrentItem as it would be if it returned when there is no current
\* item.
closeCurrentItemGuarded(s) ==
    LET currentItem  == getItem(s, Col0(s.currentIndex))
        currentIndex == Col0(s.currentIndex)
        removed      == removeAllChildrenAtIndex(s, currentIndex)
        closed       == close(removed, currentItem)
    IN  IF ~isValid(currentIndex)
        THEN <<Snap("return", currentIndex, s)>>
        ELSE <<Snap("removeAllChildrenAtIndex", currentIndex, removed),
               Snap("close", currentIndex, closed),
               Snap("collapse", currentIndex, collapse(closed, currentIndex))>>

\* closeCurrentItem as it would be if it closed the item before it removes
\* the children.
closeCurrentItemCloseFirst(s) ==
    LET currentItem  == getItem(s, Col0(s.currentIndex))
        currentIndex == Col0(s.currentIndex)
        closed       == close(s, currentItem)
        removed      == removeAllChildrenAtIndex(closed, currentIndex)
    IN  <<Snap("close", currentIndex, closed),
          Snap("removeAllChildrenAtIndex", currentIndex, removed),
          Snap("collapse", currentIndex, collapse(removed, currentIndex))>>

\* closeCurrentItem as it would be if it deleted the current item with its
\* children.
closeCurrentItemDelete(s) ==
    LET currentItem  == getItem(s, Col0(s.currentIndex))
        currentIndex == Col0(s.currentIndex)
        removed      == deleteItemByIndex(s, currentIndex)
        closed       == close(removed, currentItem)
    IN  <<Snap("removeAllChildrenAtIndex", currentIndex, removed),
          Snap("close", currentIndex, closed),
          Snap("collapse", currentIndex, collapse(closed, currentIndex))>>

\* RepoTreeView.closeCurrentItem
closeCurrentItem(s) ==
    LET currentItem  == getCurrentItem(s)
        currentIndex == getCurrentIndex(s)
        removed      == removeAllChildrenAtIndex(s, currentIndex)
        closed       == close(removed, currentItem)
    IN  <<Snap("removeAllChildrenAtIndex", currentIndex, removed),
          Snap("close", currentIndex, closed),
          Snap("collapse", currentIndex, collapse(closed, currentIndex))>>

\* removeCurrentFile as it would be if it deleted the current item instead of
\* its top-level ancestor.
removeCurrentFileAtCurrent(s) ==
    <<Snap("deleteItemByIndex", Col0(s.currentIndex),
           deleteItemByIndex(s, Col0(s.currentIndex)))>>

\* RepoTreeView.removeCurrentFile
removeCurrentFile(s) ==
    LET currentIndex  == getCurrentIndex(s)
        topLevelIndex == findTopLevelItemIndex(s, currentIndex)
    IN  <<Snap("deleteItemByIndex", topLevelIndex, deleteItemByIndex(s, topLevelIndex))>>

\* reloadFileOfCurrentItem as it would be if the new item was constructed
\* and inserted before the old one is deleted.
reloadFileOfCurrentItemInsertFirst(s) ==
    LET fileRtiIndex == findFileRtiIndex(s, Col0(s.currentIndex))
        fileRti      == getItem(s, fileRtiIndex)
        created      == createFromFileName(s, s.rtiClass[fileRti], s.fileName[fileRti])
        newRti       == s.nextId
        loaded       == loadRepoTreeItem(created, newRti, TRUE, childNumber(s, fileRti),
                                         parentIndexOf(s, fileRtiIndex))
        deleted      == deleteItemByIndex(loaded, fileRtiIndex)
    IN  <<Snap("createFromFileName", InvalidIndex, created),
          Snap("loadRepoTreeItem", parentIndexOf(s, fileRtiIndex), loaded),
          Snap("deleteItemByIndex", fileRtiIndex, deleted),
          Snap("setCurrentIndex", Index(newRti, 0),
               QSetCurrentIndex(deleted, Index(newRti, 0), "ClearAndSelect|Rows"))>>

\* reloadFileOfCurrentItem as it would be if it did not pass the position on.
reloadFileOfCurrentItemAppend(s) ==
    LET fileRtiIndex == findFileRtiIndex(s, Col0(s.currentIndex))
        fileRti      == getItem(s, fileRtiIndex)
        deleted      == deleteItemByIndex(s, fileRtiIndex)
        created      == createFromFileName(deleted, s.rtiClass[fileRti], s.fileName[fileRti])
        newRti       == deleted.nextId
        loaded       == loadRepoTreeItem(created, newRti, TRUE, None,
                                         parentIndexOf(s, fileRtiIndex))
    IN  <<Snap("deleteItemByIndex", fileRtiIndex, deleted),
          Snap("createFromFileName", InvalidIndex, created),
          Snap("loadRepoTreeItem", parentIndexOf(s, fileRtiIndex), loaded),
          Snap("setCurrentIndex", Index(newRti, 0),
               QSetCurrentIndex(loaded, Index(newRti, 0), "ClearAndSelect|Rows"))>>

\* reloadFileOfCurrentItem as it would be if it inserted the new item under
\* the root.
reloadFileOfCurrentItemAtRoot(s) ==
    LET fileRtiIndex == findFileRtiIndex(s, Col0(s.currentIndex))
        fileRti      == getItem(s, fileRtiIndex)
        deleted      == deleteItemByIndex(s, fileRtiIndex)
        created      == createFromFileName(deleted, s.rtiClass[fileRti], s.fileName[fileRti])
        newRti       == deleted.nextId
        loaded       == loadRepoTreeItem(created, newRti, TRUE, None, InvalidIndex)
    IN  <<Snap("deleteItemByIndex", fileRtiIndex, deleted),
          Snap("createFromFileName", InvalidIndex, created),
          Snap("loadRepoTreeItem", InvalidIndex, loaded),
          Snap("setCurrentIndex", Index(newRti, 0),
               QSetCurrentIndex(loaded, Index(newRti, 0), "ClearAndSelect|Rows"))>>

\* reloadFileOfCurrentItem as it would be if it replaced the top-level node
\* of the current item instead of its file node.
reloadFileOfCurrentItemTopLevel(s) ==
    LET topLevelIndex == findTopLevelItemIndex(s, Col0(s.currentIndex))
        fileRti       == getItem(s, topLevelIndex)
        deleted       == deleteItemByIndex(s, topLevelIndex)
        created       == createFromFileName(deleted, s.rtiClass[fileRti], s.fileName[fileRti])
        newRti        == deleted.nextId
        loaded        == loadRepoTreeItem(created, newRti, TRUE, childNumber(s, fileRti),
                                          InvalidIndex)
    IN  <<Snap("deleteItemByIndex", topLevelIndex, deleted),
          Snap("createFromFileName", InvalidIndex, created),
          Snap("loadRepoTreeItem", InvalidIndex, loaded),
          Snap("setCurrentIndex", Index(newRti, 0),
               QSetCurrentIndex(loaded, Index(newRti, 0), "ClearAndSelect|Rows"))>>

\* RepoTreeView.reloadFileOfCurrentItem; it returns newRtiIndex, the index that
\* loadRepoTreeItem returned.
reloadFileOfCurrentItem(s) ==
    LET currentIndex       == getCurrentIndex(s)
        fileRtiIndex       == findFileRtiIndex(s, currentIndex)
        fileRtiParentIndex == parentIndexOf(s, fileRtiIndex)
        fileRti            == getItem(s, fileRtiIndex)
        fileName           == s.fileName[fileRti]
        rtiClass           == s.rtiClass[fileRti]
        position           == childNumber(s, fileRti)
        deleted            == deleteItemByIndex(s, fileRtiIndex)
        created            == createFromFileName(deleted, rtiClass, fileName)
        newRti             == deleted.nextId
        loaded             == loadRepoTreeItem(created, newRti, TRUE, position,
                                               fileRtiParentIndex)
        newRtiIndex        == loaded.returned
    IN  <<Snap("deleteItemByIndex", fileRtiIndex, deleted),
          Snap("createFromFileName", InvalidIndex, created),
          Snap("loadRepoTreeItem", fileRtiParentIndex, loaded),
          Snap("setCurrentIndex", newRtiIndex, setCurrentIndex(loaded, newRtiIndex))>>

---------------------------------------------------------------------------
(* Config tree items (CTIs), their editors and the ConfigTreeModel:
   collaborators *)

CtiIds == 1..NumCtis

\* The values a CTI can have, and what an editor can hold: the text of a value,
\* or something that is no value.
Values == {0, 1}

Texts == {"0", "1", "x"}

\* The editor a CTI creates is a CtiEditor, or a plain widget.
EditorClass(cti) == IF cti % 2 = 1 THEN "CtiEditor" ELSE "QWidget"

\* What cti.setEditorValue shows in the editor for a value.
Format(value) == IF value = 0 THEN "0" ELSE "1"

\* cti.getEditorValue(editor): the value the editor holds, or InvalidInputError
\* when it holds none.
getEditorValue(c, cti) ==
    LET text == c.editor[cti].text
    IN  CASE text = "0" -> [raises |-> "", value |-> 0]
          [] text = "1" -> [raises |-> "", value |-> 1]
          [] OTHER      -> [raises |-> "InvalidInputError", value |-> None]

\* model.data(index, Qt.EditRole)
data(c, cti) == c.data[cti]

\* model.setData(index, value, role): the one place that changes the value of
\* a CTI; it emits dataChanged.
setData(c, cti, value, role) ==
    [c EXCEPT !.data[cti]  = IF role = "EditRole" THEN value ELSE @,
              !.setDataLog = Append(@, [index |-> cti, value |-> value, role |-> role]),
              !.events     = Append(@, "dataChanged")]

\* editor.finalize() of a CtiEditor
finalize(c, cti) ==
    [c EXCEPT !.editor[cti].finalized = @ + 1,
              !.events = Append(@, "finalize")]

\* QAbstractItemView.closeEditor(editor, hint): the view releases the editor.
baseCloseEditor(c, cti) ==
    [c EXCEPT !.editor[cti].state = "released",
              !.events = Append(@, "release")]

NoEditor == [state |-> "none", class |-> "none", text |-> "", finalized |-> 0]

\* The hints a close comes with: NoHint from commitAndCloseEditor and from the
\* view when the current item moves to another row, EditNextItem when it moves
\* within the row, RevertModelCache when the edit is cancelled.
Hints == {"NoHint", "EditNextItem", "RevertModelCache"}

---------------------------------------------------------------------------
(* ConfigItemDelegate and ConfigTreeView *)

\* ConfigItemDelegate.createEditor: the editor of the CTI at the index.
createEditor(c, cti) ==
    [c EXCEPT !.editor[cti] = [state |-> "open", class |-> EditorClass(cti),
                               text |-> "", finalized |-> 0]]

\* ConfigItemDelegate.setEditorData
setEditorData(c, cti) ==
    [c EXCEPT !.editor[cti].text = Format(data(c, cti))]

\* finalizeEditor as it would be without the check of the editor's class.
finalizeEditorAny(c, cti) ==
    finalize([c EXCEPT !.events = Append(@, "finalizeEditor")], cti)

\* ConfigItemDelegate.finalizeEditor
finalizeEditor(c, cti) ==
    LET called == [c EXCEPT !.events = Append(@, "finalizeEditor")]
    IN  IF called.editor[cti].class = "CtiEditor" THEN finalize(called, cti) ELSE called

\* setModelData as it would be without the try/except: the exception leaves
\* the handler.
setModelDataNoCatch(c, cti) ==
    LET called == [c EXCEPT !.events = Append(@, "setModelData")]
        got    == getEditorValue(called, cti)
    IN  IF got.raises = "InvalidInputError"
        THEN [called EXCEPT !.raised = got.raises]
        ELSE setData(called, cti, got.value, "EditRole")

\* setModelData as it would be if it wrote the value into the CTI itself.
setModelDataDirect(c, cti) ==
    LET called == [c EXCEPT !.events = Append(@, "setModelData")]
        got    == getEditorValue(called, cti)
    IN  IF got.raises = "InvalidInputError"
        THEN [called EXCEPT !.events = Append(@, "warn")]
        ELSE [called EXCEPT !.data[cti] = got.value]

\* ConfigItemDelegate.setModelData
setModelData(c, cti) ==
    LET called == [c EXCEPT !.events = Append(@, "setModelData")]
        got    == getEditorValue(called, cti)
    IN  IF got.raises = "InvalidInputError"
        THEN [called EXCEPT !.events = Append(@, "warn")]
        ELSE setData(called, cti, got.value, "EditRole")

\* What the commitData signal of the delegate runs: the delegate's
\* _onCommitData, which logs, and the commitData slot of the view, which calls
\* setModelData for the index of the editor.
commitData(c, cti) ==
    setModelData([c EXCEPT !.events = Append(@, "commitData")], cti)

\* closeEditor as it would be if the base class closed the editor first.
closeEditorBaseFirst(c, cti, hint) ==
    LET called == [c EXCEPT !.events = Append(@, "closeEditor"), !.hint = hint]
    IN  finalizeEditor(baseCloseEditor(called, cti), cti)

\* ConfigTreeView.closeEditor
closeEditor(c, cti, hint) ==
    LET called == [c EXCEPT !.events = Append(@, "closeEditor"), !.hint = hint]
    IN  baseCloseEditor(finalizeEditor(called, cti), cti)

\* commitAndCloseEditor as it would be with the two signals in the other order.
commitAndCloseEditorCloseFirst(c, cti) ==
    commitData(closeEditor(c, cti, "NoHint"), cti)

\* ConfigItemDelegate.commitAndCloseEditor, for the editor that sent the
\* signal: the closeEditor signal of the delegate runs the closeEditor slot of
\* the view.
commitAndCloseEditor(c, cti) ==
    closeEditor(commitData(c, cti), cti, "NoHint")

---------------------------------------------------------------------------
(* The state machine of the repo tree view *)

\* RepoTreeView.__init__: an empty model, no current index, no selection.
InitSt ==
    [childItems   |-> BlankItems.childItems,
     parentItem   |-> BlankItems.parentItem,
     fileName     |-> BlankItems.fileName,
     rtiClass     |-> BlankItems.rtiClass,
     isOpen       |-> BlankItems.isOpen,
     nextId       |-> 1,
     currentIndex |-> InvalidIndex,
     selectedRows |-> {},
     expanded     |-> {},
     closeLog     |-> <<>>,
     returned     |-> InvalidIndex,
     error        |-> ""]

NoOp == "none"

\* ConfigTreeView.__init__: every CTI has a value, no editor is open.
InitCv ==
    [data       |-> [cti \in CtiIds |-> 0],
     editor     |-> [cti \in CtiIds |-> NoEditor],
     setDataLog |-> <<>>,
     events     |-> <<>>,
     hint       |-> "",
     raised     |-> ""]

Init ==
    /\ st = InitSt
    /\ lastOp = NoOp
    /\ cv = InitCv

\* The state a handler starts in: closeLog, returned and error record the
\* close() calls, the return value and the failure of one handler, and are
\* empty when it starts.
Begin(s) == [s EXCEPT !.closeLog = <<>>, !.returned = InvalidIndex, !.error = ""]

\* What is seen of a handler once it is over: the state it leaves and whether
\* it failed.
Over(s) == [Begin(s) EXCEPT !.error = s.error]

\* The state a handler leaves: that of its last call.
Last(steps) == steps[Len(steps)].s

\* The handler op runs through the states of steps.
Run(op, steps) ==
    /\ lastOp' = op
    /\ st' = Over(Last(steps))
    /\ cv' = cv

\* Whether k more items can be constructed.
CanCreate(s, k) == s.nextId + k - 1 <= MaxIds

\* The number of items that are constructed when the item n is opened and
\* expanded.
FetchNeed(s, n) ==
    IF s.childItems[n] = <<>> THEN NumChildren(s.rtiClass[n]) ELSE 0

LoadFile ==
    \E fileName \in Files, expanded \in BOOLEAN, rtiClass \in {NoClass, "TextFileRti"} :
        /\ CanCreate(st, 1)
        /\ Run("loadFile",
               <<Snap("loadFile", InvalidIndex,
                      loadFile(Begin(st), fileName, expanded, rtiClass))>>)

\* loadRepoTreeItem with the default expand=False, under any item of the
\* model, with a fresh file item or with an item that is in the model already.
LoadRepoTreeItem ==
    \E expanded \in {FALSE}, parent \in InModel(st) \cup {RootItem} :
      \E position \in (0..Len(st.childItems[parent])) \cup {None} :
        LET parentIndex == IF parent = RootItem THEN InvalidIndex ELSE Index(parent, 0)
        IN  \/ \E fileName \in Files :
                  LET rtiClass == detectRtiFromFileName(fileName)
                      created  == createFromFileName(Begin(st), rtiClass, fileName)
                  IN  /\ CanCreate(st, 1)
                      /\ Run("loadRepoTreeItem",
                             <<Snap("loadRepoTreeItem", parentIndex,
                                    loadRepoTreeItem(created, st.nextId, expanded,
                                                     position, parentIndex))>>)
            \/ \E repoTreeItem \in InModel(st) :
                  Run("loadRepoTreeItem",
                      <<Snap("loadRepoTreeItem", parentIndex,
                             loadRepoTreeItem(Begin(st), repoTreeItem, expanded, position,
                                              parentIndex))>>)

SetCurrentIndex ==
    \E index \in ValidIndices(st) :
        Run("setCurrentIndex",
            <<Snap("setCurrentIndex", index, setCurrentIndex(Begin(st), index))>>)

\* openCurrentItem, closeCurrentItem, removeCurrentFile and
\* reloadFileOfCurrentItem are slots without a condition: they run with and
\* without a current item.
OpenCurrentItem ==
    /\ CanCreate(st, FetchNeed(st, getCurrentItem(st)))
    /\ Run("openCurrentItem", openCurrentItem(Begin(st)))

CloseCurrentItem ==
    Run("closeCurrentItem", closeCurrentItem(Begin(st)))

RemoveCurrentFile ==
    Run("removeCurrentFile", removeCurrentFile(Begin(st)))

ReloadFileOfCurrentItem ==
    /\ CanCreate(st, 1)
    /\ Run("reloadFileOfCurrentItem", reloadFileOfCurrentItem(Begin(st)))

Next ==
    \/ LoadFile
    \/ LoadRepoTreeItem
    \/ SetCurrentIndex
    \/ OpenCurrentItem
    \/ CloseCurrentItem
    \/ RemoveCurrentFile
    \/ ReloadFileOfCurrentItem

Spec == Init /\ [][Next]_vars


---------------------------------------------------------------------------
(* The state machine of the config tree view *)

\* The state between two handlers: setDataLog and events record the calls of
\* one handler and raised the exception that left it; they are empty when it
\* starts.
BeginCv(c) == [c EXCEPT !.setDataLog = <<>>, !.events = <<>>, !.hint = "", !.raised = ""]

\* The config handler op leaves the state c.
RunCv(op, c) ==
    /\ lastOp' = op
    /\ cv' = BeginCv(c)
    /\ st' = st

IsOpenEditor(c, cti) == c.editor[cti].state = "open"

\* The view starts to edit an item: it creates the editor and fills it.
Edit ==
    \E cti \in CtiIds :
        /\ ~IsOpenEditor(cv, cti)
        /\ RunCv("createEditor", setEditorData(createEditor(cv, cti), cti))

\* The user changes what an open editor holds.
Type ==
    \E cti \in CtiIds, text \in Texts :
        /\ IsOpenEditor(cv, cti)
        /\ text # cv.editor[cti].text
        /\ RunCv("type", [cv EXCEPT !.editor[cti].text = text])

\* The commitData signal for an open editor.
CommitData ==
    \E cti \in CtiIds :
        /\ IsOpenEditor(cv, cti)
        /\ RunCv("commitData", commitData(cv, cti))

\* An open editor signals commitAndCloseEditor.
CommitAndCloseEditor ==
    \E cti \in CtiIds :
        /\ IsOpenEditor(cv, cti)
        /\ RunCv("commitAndCloseEditor", commitAndCloseEditor(cv, cti))

\* The toolkit closes an editor it holds: the view calls closeEditor itself,
\* e.g. when the current item changes, without a signal of the delegate.
CloseEditor ==
    \E cti \in CtiIds, hint \in Hints :
        /\ IsOpenEditor(cv, cti)
        /\ RunCv("closeEditor", closeEditor(cv, cti, hint))

NextConfig ==
    \/ Edit
    \/ Type
    \/ CommitData
    \/ CommitAndCloseEditor
    \/ CloseEditor

SpecConfig == Init /\ [][NextConfig]_vars

---------------------------------------------------------------------------
(* Properties of the repo tree view *)

\* The repository tree: the items of the model and their fields.
Model(s) ==
    [childItems |-> s.childItems,
     parentItem |-> s.parentItem,
     fileName   |-> s.fileName,
     rtiClass   |-> s.rtiClass,
     isOpen     |-> s.isOpen]

\* What the view shows of the tree: the current index, the selection and the
\* expanded items.
View(s) ==
    [currentIndex |-> s.currentIndex,
     selectedRows |-> s.selectedRows,
     expanded     |-> s.expanded]

\* The number of close() calls on the item n that the handler logged.
CloseCalls(s, n) == Cardinality({i \in 1..Len(s.closeLog) : s.closeLog[i] = n})

IsTopLevel(s, n) == n # RootItem /\ s.parentItem[n] = RootItem

IsFileRti(s, n) == s.rtiClass[n] \in FileRtiClasses

\* openCurrentItem() can be called: there is a current item, and the items that
\* opening it constructs can be constructed.
CanOpen(s) == isValid(s.currentIndex) /\ CanCreate(s, FetchNeed(s, getCurrentItem(s)))

\* The state after openCurrentItem() and then closeCurrentItem().
AfterOpen(s) == Begin(Last(openCurrentItem(s)))

AfterOpenClose(s) == Last(closeCurrentItem(AfterOpen(s)))

\* C1: whatever the state of the repository tree, after openCurrentItem() and
\* then closeCurrentItem() on the same current item, which is a top-level file
\* node, no descendant of the item is left in the model, no descendant the item
\* had holds an open resource, and the item itself is closed.
C1_OpenCloseLeavesNoOpenDescendant ==
    (CanOpen(st) /\ IsTopLevel(st, getCurrentItem(st)) /\ IsFileRti(st, getCurrentItem(st))) =>
        LET item == getCurrentItem(st)
            was  == Descendants(AfterOpen(st), item)
            r    == AfterOpenClose(st)
        IN  /\ Descendants(r, item) = {}
            /\ was \cap InModel(r) = {}
            /\ \A d \in was : ~r.isOpen[d]
            /\ {d \in Ids \ (InModel(r) \cup {RootItem}) : r.isOpen[d]} = {}
            /\ ~r.isOpen[item]
            /\ item \in InModel(r)

\* A top-level file node is current, it has a descendant that holds an open
\* resource, and open-then-close removes and closes its descendants.
C1_Witness ==
    /\ CanOpen(st)
    /\ IsTopLevel(st, getCurrentItem(st))
    /\ IsFileRti(st, getCurrentItem(st))
    /\ \E d \in Descendants(AfterOpen(st), getCurrentItem(st)) : AfterOpen(st).isOpen[d]
    /\ AfterOpen(st).isOpen[getCurrentItem(st)]
    /\ Descendants(AfterOpenClose(st), getCurrentItem(st)) = {}
    /\ lastOp = "openCurrentItem"


\* reloadFileOfCurrentItem() can be called: there is a current item and one
\* more item can be constructed.
CanReload(s) == isValid(s.currentIndex) /\ CanCreate(s, 1)

\* The file node that reloadFileOfCurrentItem() replaces, and the new item.
OldRti(s) == FileRtiOf(s, getCurrentItem(s))

NewRti(s) == s.nextId

\* Whether the item n has been constructed in the state s.
Constructed(s, n) == n < s.nextId

\* C2: in reloadFileOfCurrentItem() the old file node is deleted from the
\* model, and closed exactly once, before the new node is constructed, which
\* is constructed from the same file name and type; in no state of the handler
\* are the old and the new node both in the model, and the old node is never
\* closed twice.
C2_ReloadDeletesBeforeCreate ==
    CanReload(st) =>
        LET steps == reloadFileOfCurrentItem(st)
            old   == OldRti(st)
            new   == NewRti(st)
        IN  /\ \A i \in 1..Len(steps) :
                 /\ ~(old \in InModel(steps[i].s) /\ new \in InModel(steps[i].s))
                 /\ CloseCalls(steps[i].s, old) <= 1
                 /\ Constructed(steps[i].s, new) =>
                       /\ old \notin InModel(steps[i].s)
                       /\ CloseCalls(steps[i].s, old) = 1
                       /\ ~steps[i].s.isOpen[old]
                       /\ steps[i].s.fileName[new] = st.fileName[old]
                       /\ steps[i].s.rtiClass[new] = st.rtiClass[old]
            /\ \E i \in 1..Len(steps) :
                 ~Constructed(steps[i].s, new) /\ old \notin InModel(steps[i].s)
            /\ new \in InModel(Last(steps))

\* An open file node is current through one of its descendants; its reload
\* closes it once and puts the new node into the model.
C2_Witness ==
    /\ CanReload(st)
    /\ getCurrentItem(st) # OldRti(st)
    /\ st.isOpen[OldRti(st)]
    /\ lastOp = "setCurrentIndex"
    /\ CloseCalls(reloadFileOfCurrentItem(st)[1].s, OldRti(st)) = 1
    /\ NewRti(st) \in InModel(Last(reloadFileOfCurrentItem(st)))
    /\ OldRti(st) \notin InModel(Last(reloadFileOfCurrentItem(st)))

\* C3: reloadFileOfCurrentItem() keeps the parent and the position: whichever
\* item of the file node's subtree is current and whatever siblings the file
\* node has, the new node has the parent the old file node had, at the position
\* the old file node had among the children of that parent.
C3_ReloadKeepsParentAndPosition ==
    CanReload(st) =>
        LET r   == Last(reloadFileOfCurrentItem(st))
            old == OldRti(st)
            new == NewRti(st)
        IN  /\ r.parentItem[new] = st.parentItem[old]
            /\ childNumber(r, new) = childNumber(st, old)
            /\ Len(r.childItems[r.parentItem[new]]) = Len(st.childItems[st.parentItem[old]])

\* A file node that is not the last child of its parent has been reloaded.
C3_Witness ==
    /\ lastOp = "reloadFileOfCurrentItem"
    /\ st.currentIndex = Index(st.nextId - 1, 0)
    /\ IsFileRti(st, st.currentIndex.node)
    /\ childNumber(st, st.currentIndex.node) + 1
           < Len(st.childItems[st.parentItem[st.currentIndex.node]])

\* removeCurrentFile() and then loadRepoTreeItem() of a fresh item of the file
\* and class of the file node of the current item, at the position that file
\* node had under its parent.
RemoveThenLoad(s) ==
    LET old      == OldRti(s)
        removed  == Begin(Last(removeCurrentFile(s)))
        created  == createFromFileName(removed, s.rtiClass[old], s.fileName[old])
    IN  loadRepoTreeItem(created, removed.nextId, TRUE, childNumber(s, old),
                         parentIndexOf(s, Index(old, 0)))

\* Whether the item n is the current item and the selected one.
CurrentAndSelected(s, n) ==
    isValid(s.currentIndex) /\ s.currentIndex.node = n /\ s.selectedRows = {n}

\* C4, as claimed: from any tree state and any current item, the tree that
\* reloadFileOfCurrentItem() reaches is the tree reached by removeCurrentFile()
\* and then loading the same file at the old node's position, and in both the
\* new node is current and selected.
C4_ReloadIsRemoveThenLoad_Claimed ==
    CanReload(st) =>
        /\ Model(Last(reloadFileOfCurrentItem(st))) = Model(RemoveThenLoad(st))
        /\ CurrentAndSelected(Last(reloadFileOfCurrentItem(st)), NewRti(st))
        /\ CurrentAndSelected(RemoveThenLoad(st), NewRti(st))

\* C4, amended: when the file node of the current item is a top-level node, the
\* tree that reloadFileOfCurrentItem() reaches is the tree reached by
\* removeCurrentFile() and then loading the same file at the old node's
\* position; after the reload the new node is current and selected, and the
\* views show the same once the new node is made current in the other as well.
C4_ReloadIsRemoveThenLoad ==
    (CanReload(st) /\ IsTopLevel(st, OldRti(st))) =>
        LET r == Last(reloadFileOfCurrentItem(st))
            o == RemoveThenLoad(st)
        IN  /\ Model(r) = Model(o)
            /\ CurrentAndSelected(r, NewRti(st))
            /\ View(r) = View(setCurrentIndex(o, Index(NewRti(st), 0)))

\* A top-level file node with a sibling after it is reloaded, and the new node
\* is at its place.
C4_Witness ==
    /\ CanReload(st)
    /\ IsTopLevel(st, OldRti(st))
    /\ childNumber(st, OldRti(st)) + 1 < Len(st.childItems[RootItem])
    /\ Last(reloadFileOfCurrentItem(st)).childItems[RootItem][childNumber(st, OldRti(st)) + 1]
           = NewRti(st)

\* C5: removeCurrentFile() removes the same top-level node whichever item of
\* its subtree is current, in whichever column: for two indices of one
\* top-level subtree the resulting models are the same, and what is gone from
\* the model is that top-level subtree and nothing else.
C5_RemoveCurrentFileSameTarget ==
    \A i \in ValidIndices(st) :
        LET top == TopLevelOf(st, i.node)
            ri  == Last(removeCurrentFile(setCurrentIndex(st, i)))
        IN  /\ InModel(ri) = InModel(st) \ Subtree(st, top)
            /\ \A n \in InModel(ri) :
                   /\ ri.childItems[n] = st.childItems[n]
                   /\ ri.parentItem[n] = st.parentItem[n]
                   /\ ri.isOpen[n] = st.isOpen[n]
            /\ \A j \in ValidIndices(st) :
                   TopLevelOf(st, j.node) = top =>
                       Model(Last(removeCurrentFile(setCurrentIndex(st, j)))) = Model(ri)

\* A descendant of a top-level node is the current item and another file is
\* loaded: removeCurrentFile() removes the top-level node, the current index
\* becomes invalid and the other file is left.
C5_Witness ==
    /\ lastOp = "setCurrentIndex"
    /\ isValid(st.currentIndex)
    /\ ~IsTopLevel(st, getCurrentItem(st))
    /\ LET r == Last(removeCurrentFile(st))
       IN  /\ ~isValid(r.currentIndex)
           /\ InModel(r) # {}
           /\ TopLevelOf(st, getCurrentItem(st)) \notin InModel(r)

\* C6: after setCurrentIndex(i), for any valid index i in any column and
\* whatever the current index and the selection were, the selection is the row
\* of i and nothing else, and the index _getCurrentIndex() returns is i in
\* column 0.
C6_SetCurrentIndexSelectsRow ==
    \A i \in ValidIndices(st) :
        LET r == setCurrentIndex(st, i)
        IN  /\ r.selectedRows = {i.node}
            /\ getCurrentIndex(r) = Index(i.node, 0)
            /\ r.currentIndex = i

\* setCurrentIndex(i) has been called with an index of another column than 0.
C6_Witness ==
    /\ lastOp = "setCurrentIndex"
    /\ st.currentIndex.col = COL_FILE_NAME
    /\ st.selectedRows = {st.currentIndex.node}
    /\ Cardinality(InModel(st)) > 1

\* C7: in every state that loadFile, loadRepoTreeItem, setCurrentIndex,
\* openCurrentItem, closeCurrentItem, removeCurrentFile and
\* reloadFileOfCurrentItem reach, the current item is the selected item: a
\* current item is selected, nothing else is selected, and at most one row is
\* selected.
C7_CurrentIsSelected ==
    /\ isValid(st.currentIndex) => st.selectedRows = {st.currentIndex.node}
    /\ ~isValid(st.currentIndex) => st.selectedRows = {}
    /\ Cardinality(st.selectedRows) <= 1
    /\ st.selectedRows \subseteq InModel(st)

\* The current item was removed, and the view made one of its siblings the
\* current and selected item.
C7_Witness ==
    /\ lastOp = "removeCurrentFile"
    /\ isValid(st.currentIndex)
    /\ st.selectedRows = {st.currentIndex.node}


\* The parents and positions loadRepoTreeItem can be called with in the state
\* s: a position is a place among the children of the parent, or None.
Places(s) ==
    {[parent |-> p, position |-> q] :
        p \in InModel(s) \cup {RootItem}, q \in (0..MaxIds) \cup {None}}
    \ {pl \in [parent : Ids, position : 0..MaxIds] :
           pl.position > Len(s.childItems[pl.parent])}

IndexOf(n) == IF n = RootItem THEN InvalidIndex ELSE Index(n, 0)

\* C13: loadRepoTreeItem with an item that has a parent fails with the
\* assertion before insertItem is called: the model and what the view shows
\* are unchanged and no index is returned; with an item without parent the
\* item is inserted at the place asked for and its index is returned.
C13_LoadRepoTreeItemRejectsParented ==
    \A pl \in Places(st), expanded \in BOOLEAN :
        /\ \A n \in InModel(st) :
              LET r == loadRepoTreeItem(Begin(st), n, expanded, pl.position,
                                        IndexOf(pl.parent))
              IN  /\ st.parentItem[n] # None
                  /\ r.error = "AssertionError"
                  /\ r = [Begin(st) EXCEPT !.error = "AssertionError"]
                  /\ Model(r) = Model(st)
                  /\ View(r) = View(st)
                  /\ r.returned = InvalidIndex
        /\ CanCreate(st, 1) =>
              \A fileName \in Files :
                  LET new     == st.nextId
                      created == createFromFileName(Begin(st),
                                     detectRtiFromFileName(fileName), fileName)
                      r       == loadRepoTreeItem(created, new, expanded, pl.position,
                                                  IndexOf(pl.parent))
                      kids    == r.childItems[pl.parent]
                  IN  /\ created.parentItem[new] = None
                      /\ r.error = ""
                      /\ new \in InModel(r)
                      /\ r.parentItem[new] = pl.parent
                      /\ kids[(IF pl.position = None THEN Len(kids) - 1
                                                     ELSE pl.position) + 1] = new
                      /\ Len(kids) = Len(st.childItems[pl.parent]) + 1
                      /\ r.returned = Index(new, 0)
                      /\ (new \in r.expanded) = expanded

\* loadRepoTreeItem was called with an item of the model and failed; the
\* model has a file with a child in it.
C13_Witness ==
    /\ lastOp = "loadRepoTreeItem"
    /\ st.error = "AssertionError"
    /\ \E n \in InModel(st) : st.parentItem[n] # RootItem

\* The items that the first call of the handler removes from the model have
\* had their close() call, once, and are closed.
RemovesClosed(s, steps) ==
    \A n \in InModel(s) \ InModel(steps[1].s) :
        /\ CloseCalls(steps[1].s, n) = 1
        /\ \A i \in 1..Len(steps) : ~steps[i].s.isOpen[n]

\* C14: the life of a node under every sequence of the view's operations. A
\* node comes into the model closed, by loadFile, loadRepoTreeItem or the
\* reload (the children that opening an item fetches are no file nodes); a
\* node becomes open by openCurrentItem only, as the current item; a node of
\* the model becomes closed by closeCurrentItem only, as the current item; a
\* node leaves the model by removeCurrentFile, the reload or closeCurrentItem;
\* a node that left does not come back, and no node outside the model is open:
\* removeCurrentFile and the delete step of the reload close what they remove.
C14_FileNodeLifecycle ==
    [][/\ lastOp' = "removeCurrentFile" =>
             RemovesClosed(st, removeCurrentFile(Begin(st)))
       /\ lastOp' = "reloadFileOfCurrentItem" =>
             RemovesClosed(st, reloadFileOfCurrentItem(Begin(st)))
       /\ Model(st') # Model(st) =>
           \A n \in Ids \ {RootItem} :
             LET was == n \in InModel(st)
                 is  == n \in InModel(st')
             IN  /\ (~was /\ is) =>
                       /\ ~st'.isOpen[n]
                       /\ ~Constructed(st, n)
                       /\ lastOp' \in {"loadFile", "loadRepoTreeItem",
                                       "reloadFileOfCurrentItem", "openCurrentItem"}
                       /\ lastOp' = "openCurrentItem" => ~IsFileRti(st', n)
                       /\ lastOp' = "loadFile" =>
                             /\ IsTopLevel(st', n)
                             /\ IsFileRti(st', n)
                 /\ (~st.isOpen[n] /\ st'.isOpen[n]) =>
                       /\ lastOp' = "openCurrentItem"
                       /\ was /\ is
                       /\ n = getCurrentItem(st)
                 /\ (was /\ is /\ st.isOpen[n] /\ ~st'.isOpen[n]) =>
                       /\ lastOp' = "closeCurrentItem"
                       /\ n = getCurrentItem(st)
                 /\ (was /\ ~is) =>
                       lastOp' \in {"removeCurrentFile", "reloadFileOfCurrentItem",
                                    "closeCurrentItem"}
                 /\ ~is => ~st'.isOpen[n]
      ]_vars

\* A top-level file node was opened as the current item; removeCurrentFile()
\* closes it and takes it out of the model.
C14_Witness ==
    /\ lastOp = "openCurrentItem"
    /\ isValid(st.currentIndex)
    /\ IsTopLevel(st, getCurrentItem(st))
    /\ IsFileRti(st, getCurrentItem(st))
    /\ st.isOpen[getCurrentItem(st)]
    /\ LET r == Last(removeCurrentFile(st))
       IN  /\ getCurrentItem(st) \notin InModel(r)
           /\ ~r.isOpen[getCurrentItem(st)]
           /\ CloseCalls(r, getCurrentItem(st)) = 1

\* The place of the first close() call on the item n in the log, 0 if there is
\* none.
FirstClose(log, n) ==
    IF \E i \in 1..Len(log) : log[i] = n
    THEN CHOOSE i \in 1..Len(log) : log[i] = n /\ \A j \in 1..(i - 1) : log[j] # n
    ELSE 0

\* C15: closeCurrentItem() goes through three steps in this order: the
\* descendants of the current item are removed from the model, each of them
\* closed; then close() of the current item is called; then the item is
\* collapsed. The close() of the item comes after the close() of every
\* descendant, and when it is called no descendant is in the model.
C15_CloseCurrentItemOrder ==
    LET item  == getCurrentItem(st)
        index == getCurrentIndex(st)
        was   == Descendants(st, item)
        steps == closeCurrentItem(Begin(st))
    IN  /\ Len(steps) = 3
        /\ <<steps[1].call, steps[2].call, steps[3].call>>
               = <<"removeAllChildrenAtIndex", "close", "collapse">>
        /\ \A i \in 1..3 : steps[i].at = index
        /\ Descendants(steps[1].s, item) = {}
        /\ was \cap InModel(steps[1].s) = {}
        /\ CloseCalls(steps[1].s, item) = 0
        /\ steps[1].s.isOpen[item] = st.isOpen[item]
        /\ \A d \in was : CloseCalls(steps[1].s, d) = 1 /\ ~steps[1].s.isOpen[d]
        /\ CloseCalls(steps[2].s, item) = 1
        /\ \A d \in was :
              FirstClose(steps[2].s.closeLog, d) < FirstClose(steps[2].s.closeLog, item)
        /\ ~steps[2].s.isOpen[item]
        /\ (item \in st.expanded) => (item \in steps[2].s.expanded)
        /\ item \notin steps[3].s.expanded
        /\ Model(steps[3].s) = Model(steps[2].s)

\* closeCurrentItem() has run on an item that was open and expanded and had
\* its children fetched, with another file loaded: it is closed, collapsed and
\* without children.
C15_Witness ==
    /\ lastOp = "openCurrentItem"
    /\ isValid(st.currentIndex)
    /\ st.isOpen[getCurrentItem(st)]
    /\ getCurrentItem(st) \in st.expanded
    /\ Descendants(st, getCurrentItem(st)) # {}
    /\ LET r == Last(closeCurrentItem(st))
       IN  /\ Descendants(r, getCurrentItem(st)) = {}
           /\ ~r.isOpen[getCurrentItem(st)]
           /\ getCurrentItem(st) \notin r.expanded
           /\ Len(r.closeLog) = Cardinality(Descendants(st, getCurrentItem(st))) + 1

\* C20: closeCurrentItem() with a current item keeps the item in the model,
\* under the same parent at the same position; the current index and the
\* selection are what they were, and they are the item; the descendants of
\* the item are what leaves the model, and nothing outside the subtree of the
\* item is closed, removed or changed.
C20_CloseCurrentItemKeepsItem ==
    isValid(st.currentIndex) =>
        LET item == getCurrentItem(st)
            sub  == Subtree(st, item)
            r    == Last(closeCurrentItem(Begin(st)))
        IN  /\ item \in InModel(r)
            /\ r.parentItem[item] = st.parentItem[item]
            /\ childNumber(r, item) = childNumber(st, item)
            /\ r.currentIndex = st.currentIndex
            /\ getCurrentItem(r) = item
            /\ r.selectedRows = st.selectedRows
            /\ r.selectedRows = {item}
            /\ InModel(r) = InModel(st) \ Descendants(st, item)
            /\ \A i \in 1..Len(r.closeLog) : r.closeLog[i] \in sub
            /\ \A n \in Ids \ sub :
                  /\ r.isOpen[n] = st.isOpen[n]
                  /\ r.parentItem[n] = st.parentItem[n]
                  /\ r.childItems[n] = st.childItems[n]
                  /\ r.fileName[n] = st.fileName[n]
                  /\ r.rtiClass[n] = st.rtiClass[n]
                  /\ (n \in r.expanded) = (n \in st.expanded)

\* A file node with fetched children, which is not the first of the top-level
\* nodes, was opened as the current item: closeCurrentItem() leaves it current
\* and selected, at its place, without children, and the other file as it is.
C20_Witness ==
    /\ lastOp = "openCurrentItem"
    /\ isValid(st.currentIndex)
    /\ IsFileRti(st, getCurrentItem(st))
    /\ IsTopLevel(st, getCurrentItem(st))
    /\ childNumber(st, getCurrentItem(st)) > 0
    /\ st.childItems[getCurrentItem(st)] # <<>>
    /\ LET r == Last(closeCurrentItem(st))
       IN  /\ r.childItems[getCurrentItem(st)] = <<>>
           /\ childNumber(r, getCurrentItem(st)) = childNumber(st, getCurrentItem(st))
           /\ r.selectedRows = {getCurrentItem(st)}
           /\ getCurrentItem(r) = getCurrentItem(st)

\* C17: loadFile(fileName, expand, rtiClass) makes a node of the class given,
\* or of the class detected from the file name when rtiClass is None, and
\* appends it as the last child of the root; the nodes that were there and
\* their order are unchanged; the new node is expanded if and only if expand;
\* the index of the new node is returned; the current index and the selection
\* are unchanged.
C17_LoadFileAppends ==
    CanCreate(st, 1) =>
        \A fileName \in Files, expanded \in BOOLEAN, rtiClass \in FileRtiClasses \cup {NoClass} :
            LET new == st.nextId
                r   == loadFile(Begin(st), fileName, expanded, rtiClass)
            IN  /\ r.rtiClass[new] = IF rtiClass = NoClass
                                     THEN detectRtiFromFileName(fileName)
                                     ELSE rtiClass
                /\ r.fileName[new] = fileName
                /\ r.error = ""
                /\ r.childItems[RootItem] = Append(st.childItems[RootItem], new)
                /\ r.parentItem[new] = RootItem
                /\ r.childItems[new] = <<>>
                /\ ~r.isOpen[new]
                /\ \A n \in Ids \ {RootItem, new} :
                      /\ r.childItems[n] = st.childItems[n]
                      /\ r.parentItem[n] = st.parentItem[n]
                      /\ r.fileName[n] = st.fileName[n]
                      /\ r.rtiClass[n] = st.rtiClass[n]
                      /\ r.isOpen[n] = st.isOpen[n]
                      /\ (n \in r.expanded) = (n \in st.expanded)
                /\ r.isOpen[RootItem] = st.isOpen[RootItem]
                /\ (new \in r.expanded) = expanded
                /\ r.returned = Index(new, COL_NODE_NAME)
                /\ r.currentIndex = st.currentIndex
                /\ r.selectedRows = st.selectedRows
                /\ r.closeLog = <<>>

\* loadFile has loaded a file with a class that is not the one detected from
\* its name, expanded, behind another node that is the current item.
C17_Witness ==
    /\ lastOp = "loadFile"
    /\ LET new == st.nextId - 1
       IN  /\ new > 1
           /\ st.childItems[RootItem][Len(st.childItems[RootItem])] = new
           /\ st.rtiClass[new] # detectRtiFromFileName(st.fileName[new])
           /\ st.fileName[new] \in Files
           /\ new \in st.expanded
           /\ isValid(st.currentIndex)
           /\ st.currentIndex.node # new
           /\ st.selectedRows = {st.currentIndex.node}

\* The sequence seq with x in the place of y.
Replaced(seq, y, x) == [i \in 1..Len(seq) |-> IF seq[i] = y THEN x ELSE seq[i]]

\* C19: reloadFileOfCurrentItem() with a current item changes the subtree of
\* the reloaded file node only: the parent of the file node has as many
\* children as before, the same ones in the same order but for the new node
\* in the place of the old one; every node outside the subtree of the old
\* node stays in the model with its fields, and has no close() call; what
\* leaves the model is the subtree of the old node.
C19_ReloadChangesOnlyFileNode ==
    CanReload(st) =>
        LET old    == OldRti(st)
            new    == NewRti(st)
            parent == st.parentItem[old]
            sub    == Subtree(st, old)
            r      == Last(reloadFileOfCurrentItem(Begin(st)))
        IN  /\ Len(r.childItems[parent]) = Len(st.childItems[parent])
            /\ r.childItems[parent] = Replaced(st.childItems[parent], old, new)
            /\ InModel(r) = (InModel(st) \ sub) \cup {new}
            /\ \A i \in 1..Len(r.closeLog) : r.closeLog[i] \in sub
            /\ \A n \in InModel(st) \ sub :
                  /\ r.isOpen[n] = st.isOpen[n]
                  /\ r.parentItem[n] = st.parentItem[n]
                  /\ n # parent => r.childItems[n] = st.childItems[n]
                  /\ r.fileName[n] = st.fileName[n]
                  /\ r.rtiClass[n] = st.rtiClass[n]
                  /\ (n \in r.expanded) = (n \in st.expanded)
            /\ r.isOpen[RootItem] = st.isOpen[RootItem]

\* The first of two top-level file nodes is reloaded through the current
\* item while the second one is open: the second one stays open and second,
\* behind the new node.
C19_Witness ==
    /\ CanReload(st)
    /\ lastOp = "setCurrentIndex"
    /\ IsFileRti(st, OldRti(st))
    /\ Len(st.childItems[RootItem]) = 2
    /\ st.childItems[RootItem][1] = OldRti(st)
    /\ st.isOpen[st.childItems[RootItem][2]]
    /\ LET r == Last(reloadFileOfCurrentItem(st))
       IN  /\ r.childItems[RootItem] = <<NewRti(st), st.childItems[RootItem][2]>>
           /\ r.isOpen[st.childItems[RootItem][2]]
           /\ OldRti(st) \notin InModel(r)

\* The calls of a handler, in their order.
Calls(steps) == [i \in 1..Len(steps) |-> steps[i].call]

\* C18: without a current item _getCurrentIndex() returns the invalid index,
\* which stands for the root item, and raises nothing; openCurrentItem,
\* closeCurrentItem, removeCurrentFile and reloadFileOfCurrentItem do not
\* return early: they make all their calls, with the invalid index or with
\* what the model finds for it. closeCurrentItem calls
\* removeAllChildrenAtIndex with the root index, which empties the model, and
\* close() on the root item.
C18_NoGuardForMissingCurrentItem ==
    ~isValid(st.currentIndex) =>
        LET s0      == Begin(st)
            opened  == openCurrentItem(s0)
            closed  == closeCurrentItem(s0)
            removed == removeCurrentFile(s0)
        IN  /\ getCurrentIndex(s0) = InvalidIndex
            /\ getCurrentItem(s0) = RootItem
            /\ Calls(opened) = <<"open", "expand">>
            /\ \A i \in 1..2 : opened[i].at = InvalidIndex /\ opened[i].s.error = ""
            /\ opened[1].s.isOpen[RootItem]
            /\ Calls(closed) = <<"removeAllChildrenAtIndex", "close", "collapse">>
            /\ \A i \in 1..3 : closed[i].at = InvalidIndex /\ closed[i].s.error = ""
            /\ InModel(closed[1].s) = {}
            /\ \A n \in InModel(st) : CloseCalls(closed[1].s, n) = 1
            /\ CloseCalls(closed[2].s, RootItem) = 1
            /\ Calls(removed) = <<"deleteItemByIndex">>
            /\ removed[1].at = findTopLevelItemIndex(s0, InvalidIndex)
            /\ removed[1].s.error = ""
            /\ CanCreate(st, 1) =>
                  LET reloaded == reloadFileOfCurrentItem(s0)
                  IN  /\ Calls(reloaded) = <<"deleteItemByIndex", "createFromFileName",
                                             "loadRepoTreeItem", "setCurrentIndex">>
                      /\ reloaded[1].at = findFileRtiIndex(s0, InvalidIndex)
                      /\ reloaded[3].at = parentIndexOf(s0, findFileRtiIndex(s0, InvalidIndex))
                      /\ Constructed(reloaded[2].s, NewRti(st))
                      /\ \A i \in 1..4 : reloaded[i].s.error = ""

\* Two files are loaded and no item is current: closeCurrentItem() is called
\* with the root index and takes both files out of the model.
C18_Witness ==
    /\ lastOp \in {"loadFile", "loadRepoTreeItem"}
    /\ ~isValid(st.currentIndex)
    /\ Len(st.childItems[RootItem]) = 2
    /\ LET steps == closeCurrentItem(st)
       IN  /\ steps[1].call = "removeAllChildrenAtIndex"
           /\ steps[1].at = InvalidIndex
           /\ InModel(Last(steps)) = {}
           /\ Len(Last(steps).closeLog) = 3

---------------------------------------------------------------------------
(* Properties of the config tree view *)

\* The editor of the CTI is open and holds no value: getEditorValue raises
\* InvalidInputError.
HoldsInvalidInput(c, cti) ==
    IsOpenEditor(c, cti) /\ c.editor[cti].text \notin {Format(v) : v \in Values}

\* The editor of the CTI is open and holds the value v.
HoldsValue(c, cti, v) == IsOpenEditor(c, cti) /\ c.editor[cti].text = Format(v)

\* The data of the model after the setData calls of the log, in their order.
RECURSIVE ApplyLog(_, _)
ApplyLog(d, log) ==
    IF log = <<>> THEN d
    ELSE ApplyLog([d EXCEPT ![Head(log).index] =
                       IF Head(log).role = "EditRole" THEN Head(log).value ELSE @],
                  Tail(log))

\* C8: setModelData with an editor whose getEditorValue raises InvalidInput
\* leaves the model as it is: model.setData is not called, model.data(index,
\* EditRole) is what it was, and no error reaches the caller.
C8_InvalidInputLeavesModel ==
    \A cti \in CtiIds :
        HoldsInvalidInput(cv, cti) =>
            LET r == setModelData(cv, cti)
            IN  /\ r.setDataLog = <<>>
                /\ data(r, cti) = data(cv, cti)
                /\ r.data = cv.data
                /\ r.raised = ""
                /\ r.editor = cv.editor

\* The one open editor holds no value and its data was committed: the model
\* still has the value that was written before.
C8_Witness ==
    /\ lastOp = "commitData"
    /\ \E cti \in CtiIds :
          /\ HoldsInvalidInput(cv, cti)
          /\ \A other \in CtiIds \ {cti} : ~IsOpenEditor(cv, other)
          /\ cv.data[cti] = 1

\* C9, as claimed: when the editor holds invalid input, a commit leaves the
\* editor open for correction: the commit does not close, finalize or release
\* the editor, also when it is started through commitAndCloseEditor.
C9_InvalidInputKeepsEditorOpen ==
    \A cti \in CtiIds :
        HoldsInvalidInput(cv, cti) =>
            \A r \in {commitData(cv, cti), commitAndCloseEditor(cv, cti)} :
                /\ r.editor[cti].state = "open"
                /\ r.editor[cti].finalized = 0
                /\ \A i \in 1..Len(r.events) :
                       r.events[i] \notin {"closeEditor", "finalize", "release"}

\* C10: setModelData with an editor that holds a valid value calls
\* model.setData exactly once, with that value, the index and EditRole; the
\* value of a CTI changes through model.setData only: the data of the model is
\* what the setData calls made it.
C10_ValidInputOneSetData ==
    \A cti \in CtiIds :
        /\ \A v \in Values :
              HoldsValue(cv, cti, v) =>
                  LET r == setModelData(cv, cti)
                  IN  /\ r.setDataLog = <<[index |-> cti, value |-> v, role |-> "EditRole"]>>
                      /\ r.data = [cv.data EXCEPT ![cti] = v]
                      /\ r.raised = ""
        /\ IsOpenEditor(cv, cti) =>
              /\ setModelData(cv, cti).data
                     = ApplyLog(cv.data, setModelData(cv, cti).setDataLog)
              /\ commitAndCloseEditor(cv, cti).data
                     = ApplyLog(cv.data, commitAndCloseEditor(cv, cti).setDataLog)

\* The one open editor holds the value 1 and its data was committed: the model
\* has the value 1 for its CTI.
C10_Witness ==
    /\ lastOp = "commitData"
    /\ \E cti \in CtiIds :
          /\ HoldsValue(cv, cti, 1)
          /\ \A other \in CtiIds \ {cti} : ~IsOpenEditor(cv, other)
          /\ cv.data[cti] = 1
          /\ \A other \in CtiIds \ {cti} : cv.data[other] = 0

\* The places of the event e among the events of a handler.
Positions(events, e) == {i \in 1..Len(events) : events[i] = e}

\* Every event a comes before every event b.
Before(events, a, b) ==
    \A i \in Positions(events, a), j \in Positions(events, b) : i < j

\* The ways an open editor is closed: commitAndCloseEditor, which goes through
\* the closeEditor signal of the delegate, and the direct call of closeEditor.
Closings(c, cti) ==
    {commitAndCloseEditor(c, cti)} \cup {closeEditor(c, cti, hint) : hint \in Hints}

C12_FinalizeEditorBeforeBaseClose ==
    \A cti \in CtiIds :
        IsOpenEditor(cv, cti) =>
            /\ \A r \in Closings(cv, cti) :
                  /\ Cardinality(Positions(r.events, "closeEditor")) = 1
                  /\ Cardinality(Positions(r.events, "finalizeEditor")) = 1
                  /\ Cardinality(Positions(r.events, "release")) = 1
                  /\ Before(r.events, "closeEditor", "finalizeEditor")
                  /\ Before(r.events, "finalizeEditor", "release")
            /\ \A r \in {commitData(cv, cti), setModelData(cv, cti)} :
                  /\ Positions(r.events, "release") = {}
                  /\ Positions(r.events, "finalizeEditor") = {}
                  /\ IsOpenEditor(r, cti)

\* The view was called directly to close a plain editor while a CtiEditor
\* is open.
C12_Witness ==
    /\ lastOp = "closeEditor"
    /\ \E a, b \in CtiIds :
          /\ cv.editor[a].class = "QWidget"
          /\ cv.editor[a].state = "released"
          /\ cv.editor[b].class = "CtiEditor"
          /\ IsOpenEditor(cv, b)

\* C16: commitAndCloseEditor commits and then closes: commitData is emitted
\* once and first, closeEditor once and second, with NoHint; setModelData for
\* the editor runs once, and all it does comes before the editor is finalized
\* and released.
C16_CommitBeforeClose ==
    \A cti \in CtiIds :
        IsOpenEditor(cv, cti) =>
            LET r  == commitAndCloseEditor(cv, cti)
                ev == r.events
            IN  /\ Cardinality(Positions(ev, "commitData")) = 1
                /\ Cardinality(Positions(ev, "closeEditor")) = 1
                /\ Cardinality(Positions(ev, "setModelData")) = 1
                /\ Before(ev, "commitData", "closeEditor")
                /\ r.hint = "NoHint"
                /\ \A done \in {"setModelData", "dataChanged", "warn"},
                      closing \in {"closeEditor", "finalizeEditor", "finalize", "release"} :
                        Before(ev, done, closing)
                /\ r.data = commitData(cv, cti).data
                /\ r.editor[cti].state = "released"

\* commitAndCloseEditor of an editor that held a new value: the value is in
\* the model and the editor is released.
C16_Witness ==
    /\ lastOp = "commitAndCloseEditor"
    /\ \E cti \in CtiIds :
          /\ cv.editor[cti].state = "released"
          /\ cv.editor[cti].text = "1"
          /\ cv.data[cti] = 1

=============================================================================
